---- MODULE Spec2Model ----
(***************************************************************************)
(* Video catalog service of SportVisionAI/Backend-FastApi:                 *)
(*   services/video_service.py  VideoService (catalogs, pipeline, scoring) *)
(*   routers/video.py           the HTTP handlers wrapping the service     *)
(*   models/video.py            Video, VideoAnalysis, VideoStatus          *)
(*                                                                         *)
(* The service runs on one asyncio event loop.  A coroutine runs without   *)
(* interruption until it reaches a real suspension point; the only one in  *)
(* the service is asyncio.sleep(3) inside _process_video.  `running` names *)
(* the upload coroutine that is between two suspension points; every other *)
(* request handler can start only when no coroutine is running.            *)
(*                                                                         *)
(* Encodings.  Optional[T]: <<>> is None, <<x>> is the value x.            *)
(* datetime: an integer count of half days (12 h), so timedelta.days is    *)
(* the floor of the difference divided by 2.  Similarity scores: tenths    *)
(* (3 is 0.3).  The eight float values the scorer can produce,             *)
(* 0.0 0.2 0.3 0.4 0.5 0.6000000000000001 0.7 0.8999999999999999, are in   *)
(* the same order as their tenths, so every comparison is preserved.       *)
(* uuid4 identifiers: the next unused positive integer.                    *)
(***************************************************************************)
EXTENDS Integers, Sequences, FiniteSets, TLC

VARIABLES
    videos,       \* heap of Video objects, indexed by video id
    videos_db,    \* VideoService.videos_db: the ids of the dict, in insertion order
    analyses_db,  \* VideoService.analyses_db: analysis id -> VideoAnalysis
    files,        \* ids of the videos whose backing file exists in upload_dir
    task,         \* per upload coroutine: "created", "sleeping" or "returned"
    running,      \* id of the upload coroutine that holds the event loop, 0 if none
    now,          \* the clock read by datetime.now()
    response      \* the last finished request: service outcome and HTTP answer

vars == <<videos, videos_db, analyses_db, files, task, running, now, response>>

(***************************************************************************)
(* Bounds of the model.                                                    *)
(***************************************************************************)
MaxVideos == 2        \* uploads accepted in one behaviour of Spec
MaxAnalyses == 2      \* analyses created in one behaviour of Spec
MaxTime == 1          \* last value of the clock
MaxRecVideos == 3     \* catalog size drawn by InitRec
MaxListVideos == 3    \* catalog size drawn by InitList

(***************************************************************************)
(* Program constants.                                                      *)
(***************************************************************************)
MaxUploadSize == 104857600     \* 100 * 1024 * 1024
DefaultRecLimit == 5
DefaultListLimit == 20
MaxDateDiffDays == 30
SportWeight == 3
TeamsWeight == 4
DateWeight == 2
ScoreThreshold == 1

UPLOADING == "uploading"
PROCESSING == "processing"
COMPLETED == "completed"
FAILED == "failed"
VideoStatus == {UPLOADING, PROCESSING, COMPLETED, FAILED}
Terminal == {COMPLETED, FAILED}

None == <<>>
Some(x) == <<x>>

Min(a, b) == IF a < b THEN a ELSE b
Max(a, b) == IF a > b THEN a ELSE b
SeqToSet(s) == {s[i] : i \in DOMAIN s}

(***************************************************************************)
(* Inputs.                                                                 *)
(***************************************************************************)
\* os.path.splitext(file.filename)[1] of the uploaded file
Extensions == {".mp4", ".MP4", ".webm", ".txt", ""}
FileSizes == {1, MaxUploadSize, MaxUploadSize + 1}
SportTypes == {None, Some(""), Some("soccer"), Some("tennis")}
TeamLists == {None, Some(<<>>), Some(<<"A">>), Some(<<"B">>), Some(<<"B", "A", "B">>)}
\* half days: day 0, day 30, day 30 + 12 h, day 40
MatchDates == {None, Some(0), Some(60), Some(61), Some(80)}

Metadata == [sport_type : SportTypes, teams : TeamLists, match_date : MatchDates]
\* the metadata of the larger catalogs drawn by InitRec
CoarseMetadata ==
    [sport_type : {None, Some("soccer")}, teams : {None, Some(<<"A">>)},
     match_date : {None, Some(0)}]
RecLimits == {-1, 0, 1, 2, DefaultRecLimit}

\* VideoAnalysisRequest.analysis_type: any string
AnalysisTypes ==
    {"goal_detection", "player_tracking", "tactical_analysis", "pose_estimation", ""}

\* Inputs of Spec.  No branch of the upload, pipeline, analyze or delete code reads
\* the metadata, the analysis type or the paging arguments.
LifecycleMetadata ==
    { [sport_type |-> Some("soccer"), teams |-> Some(<<"A">>), match_date |-> Some(0)] }
LifecycleAnalysisTypes == {"goal_detection"}
LifecycleRecLimits == {DefaultRecLimit}
\* ids a request can name; one that no upload has created yet, or that was deleted,
\* is unknown to the catalog
VideoIds == 1..MaxVideos

(***************************************************************************)
(* models/video.py                                                         *)
(***************************************************************************)
Video(meta, status, created, updated) ==
    [status |-> status, sport_type |-> meta.sport_type, teams |-> meta.teams,
     match_date |-> meta.match_date, created_at |-> created, updated_at |-> updated,
     analyses |-> <<>>]

VideoAnalysis(aid, vid, atype, result, created) ==
    [id |-> aid, video_id |-> vid, analysis_type |-> atype, result_data |-> result,
     created_at |-> created]

VideoRecommendation(vid, score, reason) ==
    [video_id |-> vid, similarity_score |-> score, reason |-> reason]

(***************************************************************************)
(* Requests answer with [op, arg, svc, http, body]: svc is the outcome of  *)
(* the service call (200, or the status_code of the HTTPException it       *)
(* raised), http the status code the router answers with.                  *)
(***************************************************************************)
Response(op, arg, svc, http, body) ==
    [op |-> op, arg |-> arg, svc |-> svc, http |-> http, body |-> body]

\* routers/video.py: try: ... except Exception as e: raise HTTPException(500).
\* HTTPException is an Exception, so the handler catches what the service raised.
RouterCode(svc) == IF svc = 200 THEN 200 ELSE 500

\* VideoService.get_video_by_id: self.videos_db.get(video_id)
InCatalog(id) == \E i \in DOMAIN videos_db : videos_db[i] = id
get_video_by_id(id) == IF InCatalog(id) THEN Some(videos[id]) ELSE None

(***************************************************************************)
(* VideoService.upload_video                                               *)
(***************************************************************************)
allowed_extensions == {".mp4", ".avi", ".mov", ".mkv", ".webm"}

\* str.lower() on the extensions of Extensions
Lower(ext) == IF ext = ".MP4" THEN ".mp4" ELSE ext

\* UploadOutcome with >= in the size check: a file of exactly 100 MiB is refused
UploadOutcome_RejectsAtLimit(ext, size, writeFails) ==
    IF Lower(ext) \notin allowed_extensions THEN 400
    ELSE IF size >= MaxUploadSize THEN 400
    ELSE IF writeFails THEN 500
    ELSE 200

\* the checks of upload_video before the record is created, and the file write
UploadOutcome(ext, size, writeFails) ==
    IF Lower(ext) \notin allowed_extensions THEN 400
    ELSE IF size > MaxUploadSize THEN 400
    ELSE IF writeFails THEN 500
    ELSE 200

\* upload_video raises: a bad extension, an oversize file, or a failed file write
UploadRejected(ext, size, writeFails) ==
    /\ running = 0
    /\ UploadOutcome(ext, size, writeFails) # 200
    /\ response' = Response("upload", 0, UploadOutcome(ext, size, writeFails),
                            RouterCode(UploadOutcome(ext, size, writeFails)), None)
    /\ UNCHANGED <<videos, videos_db, analyses_db, files, task, running, now>>

\* upload_video up to the call of _process_video: the checks pass, the file is
\* written, the record is created with status UPLOADING and put into videos_db.
\* d is the advance of the clock between the two datetime.now() calls.
UploadVideo(ext, size, meta, d) ==
    /\ running = 0
    /\ UploadOutcome(ext, size, FALSE) = 200
    /\ Len(videos) < MaxVideos
    /\ now + d <= MaxTime
    /\ videos' = Append(videos, Video(meta, UPLOADING, now, now + d))
    /\ videos_db' = Append(videos_db, Len(videos) + 1)
    /\ files' = files \cup {Len(videos) + 1}
    /\ task' = Append(task, "created")
    /\ running' = Len(videos) + 1
    /\ now' = now + d
    /\ UNCHANGED <<analyses_db, response>>

\* what upload_video returns and the router answers with: the Video object
UploadReturn(id, vs) == Response("upload", id, 200, 200, Some(vs[id]))

(***************************************************************************)
(* VideoService._process_video                                             *)
(***************************************************************************)
\* ProcessBegin suspending before it sets PROCESSING: the pipeline started with
\* asyncio.create_task and an await ahead of the first assignment
ProcessBegin_YieldsFirst(id) ==
    /\ running = id
    /\ task[id] = "created"
    /\ task' = [task EXCEPT ![id] = "sleeping"]
    /\ running' = 0
    /\ UNCHANGED <<videos, videos_db, analyses_db, files, now, response>>

\* from the call to the suspension in asyncio.sleep(3)
ProcessBegin(id) ==
    /\ running = id
    /\ task[id] = "created"
    /\ IF ~InCatalog(id)
       THEN /\ task' = [task EXCEPT ![id] = "returned"]
            /\ response' = UploadReturn(id, videos)
            /\ UNCHANGED videos
       ELSE /\ videos' = [videos EXCEPT ![id].status = PROCESSING,
                                        ![id].updated_at = now]
            /\ task' = [task EXCEPT ![id] = "sleeping"]
            /\ UNCHANGED response
    /\ running' = 0
    /\ UNCHANGED <<videos_db, analyses_db, files, now>>

\* ProcessFail without the except branch: the exception leaves _process_video and
\* upload_video, the status stays as it was
ProcessFail_Propagates(id) ==
    /\ running = 0
    /\ id \in DOMAIN task
    /\ task[id] = "sleeping"
    /\ task' = [task EXCEPT ![id] = "returned"]
    /\ response' = Response("upload", id, 500, 500, None)
    /\ UNCHANGED <<videos, videos_db, analyses_db, files, running, now>>

\* ProcessComplete that looks the video up again by writing it back into the dict:
\* self.videos_db[video_id] = video after the sleep
ProcessComplete_Reinserts(id) ==
    /\ running = 0
    /\ id \in DOMAIN task
    /\ task[id] = "sleeping"
    /\ videos' = [videos EXCEPT ![id].status = COMPLETED, ![id].updated_at = now]
    /\ videos_db' = IF InCatalog(id) THEN videos_db ELSE Append(videos_db, id)
    /\ task' = [task EXCEPT ![id] = "returned"]
    /\ response' = UploadReturn(id, videos')
    /\ UNCHANGED <<analyses_db, files, running, now>>

\* ProcessComplete without the assignment to updated_at
ProcessComplete_KeepsUpdatedAt(id) ==
    /\ running = 0
    /\ id \in DOMAIN task
    /\ task[id] = "sleeping"
    /\ videos' = [videos EXCEPT ![id].status = COMPLETED]
    /\ task' = [task EXCEPT ![id] = "returned"]
    /\ response' = UploadReturn(id, videos')
    /\ UNCHANGED <<videos_db, analyses_db, files, running, now>>

\* the sleep is over: the try block ends, then upload_video returns the video
ProcessComplete(id) ==
    /\ running = 0
    /\ id \in DOMAIN task
    /\ task[id] = "sleeping"
    /\ videos' = [videos EXCEPT ![id].status = COMPLETED, ![id].updated_at = now]
    /\ task' = [task EXCEPT ![id] = "returned"]
    /\ response' = UploadReturn(id, videos')
    /\ UNCHANGED <<videos_db, analyses_db, files, running, now>>

\* a step of the try block raises an Exception: the except branch
ProcessFail(id) ==
    /\ running = 0
    /\ id \in DOMAIN task
    /\ task[id] = "sleeping"
    /\ videos' = [videos EXCEPT ![id].status = FAILED, ![id].updated_at = now]
    /\ task' = [task EXCEPT ![id] = "returned"]
    /\ response' = UploadReturn(id, videos')
    /\ UNCHANGED <<videos_db, analyses_db, files, running, now>>

(***************************************************************************)
(* Python list operations                                                  *)
(***************************************************************************)
\* s[start:stop] with Python's handling of negative and out-of-range indices
PySlice(s, start, stop) ==
    LET n == Len(s)
        norm(i) == IF i < 0 THEN Max(i + n, 0) ELSE Min(i, n)
        lo == norm(start)
        hi == norm(stop)
    IN IF lo >= hi THEN <<>> ELSE SubSeq(s, lo + 1, hi)

\* list.sort(key=..., reverse=True) on a sequence of [key, val]: descending and
\* stable (elements with equal keys keep their original order)
RECURSIVE InsertDesc(_, _)
InsertDesc(sorted, x) ==
    IF sorted = <<>> THEN <<x>>
    ELSE IF Head(sorted).key >= x.key THEN <<Head(sorted)>> \o InsertDesc(Tail(sorted), x)
    ELSE <<x>> \o sorted

RECURSIVE SortDesc(_)
SortDesc(s) ==
    IF s = <<>> THEN <<>>
    ELSE InsertDesc(SortDesc(SubSeq(s, 1, Len(s) - 1)), s[Len(s)])

Values(s) == [i \in DOMAIN s |-> s[i].val]

RECURSIVE RemoveKey(_, _)
\* del self.videos_db[video_id]
RemoveKey(s, id) ==
    IF s = <<>> THEN <<>>
    ELSE IF Head(s) = id THEN RemoveKey(Tail(s), id)
    ELSE <<Head(s)>> \o RemoveKey(Tail(s), id)

(***************************************************************************)
(* VideoService.get_video_history and the router's list_videos             *)
(***************************************************************************)
\* get_video_history without the sort: the page is cut from the dict's order
get_video_history_NoSort(limit, offset) ==
    PySlice(videos_db, offset, offset + limit)

\* videos.sort(key=lambda x: x.created_at, reverse=True); videos[offset:offset+limit]
get_video_history(limit, offset) ==
    LET keyed == [i \in DOMAIN videos_db |->
                     [key |-> videos[videos_db[i]].created_at, val |-> videos_db[i]]]
    IN PySlice(Values(SortDesc(keyed)), offset, offset + limit)

RECURSIVE Filter(_, _)
\* [v for v in videos if ...]: keep[id] tells whether video id passes
Filter(s, keep) ==
    IF s = <<>> THEN <<>>
    ELSE IF keep[Head(s)] THEN <<Head(s)>> \o Filter(Tail(s), keep)
    ELSE Filter(Tail(s), keep)

\* routers/video.py list_videos: the page first, then the two filters
list_videos(sport_type, status, limit, offset) ==
    LET page == get_video_history(limit, offset)
        bySport == IF sport_type # None /\ sport_type[1] # ""
                   THEN Filter(page, [id \in DOMAIN videos |->
                                        videos[id].sport_type = sport_type])
                   ELSE page
    IN IF status # None /\ status[1] # ""
       THEN Filter(bySport, [id \in DOMAIN videos |-> videos[id].status = status[1]])
       ELSE bySport

ListVideos(sport_type, status, limit, offset) ==
    /\ running = 0
    /\ response' = Response("list", <<sport_type, status, limit, offset>>, 200, 200,
                            list_videos(sport_type, status, limit, offset))
    /\ UNCHANGED <<videos, videos_db, analyses_db, files, task, running, now>>

\* routers/video.py get_video: 404 raised by the router itself, outside any try
GetVideo(id) ==
    /\ running = 0
    /\ response' = Response("get", id, 200,
                            IF get_video_by_id(id) = None THEN 404 ELSE 200,
                            get_video_by_id(id))
    /\ UNCHANGED <<videos, videos_db, analyses_db, files, task, running, now>>

(***************************************************************************)
(* VideoService.analyze_video and get_video_analyses                       *)
(***************************************************************************)
\* the dict analyze_video builds in place of an analysis: the same three empty
\* results for every analysis_type; parameters is request.parameters or {}
result_data(atype, parameters) ==
    [analysis_type |-> atype,
     parameters |-> IF parameters = None THEN <<>> ELSE parameters[1],
     results |-> [detected_events |-> <<>>, statistics |-> <<>>, highlights |-> <<>>]]

\* AnalyzeOutcome without the status check
AnalyzeOutcome_NoStatusCheck(id) ==
    IF get_video_by_id(id) = None THEN 404 ELSE 200

\* the two checks before an analysis is created
AnalyzeOutcome(id) ==
    IF get_video_by_id(id) = None THEN 404
    ELSE IF videos[id].status # COMPLETED THEN 400
    ELSE 200

\* AnalyzeVideo marking the video as processing again while it is analysed
AnalyzeVideo_Reprocesses(id, atype) ==
    /\ running = 0
    /\ LET svc == AnalyzeOutcome(id)
           aid == Len(analyses_db) + 1
           analysis == VideoAnalysis(aid, id, atype, result_data(atype, None), now)
       IN IF svc # 200
          THEN /\ response' = Response("analyze", id, svc, RouterCode(svc), None)
               /\ UNCHANGED <<videos, analyses_db>>
          ELSE /\ Len(analyses_db) < MaxAnalyses
               /\ analyses_db' = Append(analyses_db, analysis)
               /\ videos' = [videos EXCEPT ![id].analyses = Append(@, analysis),
                                           ![id].status = PROCESSING]
               /\ response' = Response("analyze", id, 200, 200, Some(analysis))
    /\ UNCHANGED <<videos_db, files, task, running, now>>

\* AnalyzeVideo storing the Analysis before it checks the video's status
AnalyzeVideo_StoresBeforeCheck(id, atype) ==
    /\ running = 0
    /\ LET svc == AnalyzeOutcome(id)
           aid == Len(analyses_db) + 1
           analysis == VideoAnalysis(aid, id, atype, result_data(atype, None), now)
       IN IF svc = 404
          THEN /\ response' = Response("analyze", id, svc, RouterCode(svc), None)
               /\ UNCHANGED <<videos, analyses_db>>
          ELSE /\ Len(analyses_db) < MaxAnalyses
               /\ analyses_db' = Append(analyses_db, analysis)
               /\ IF svc = 400
                  THEN /\ response' = Response("analyze", id, svc, RouterCode(svc), None)
                       /\ UNCHANGED videos
                  ELSE /\ videos' = [videos EXCEPT ![id].analyses = Append(@, analysis)]
                       /\ response' = Response("analyze", id, 200, 200, Some(analysis))
    /\ UNCHANGED <<videos_db, files, task, running, now>>

\* AnalyzeVideo with video.analyses = [analysis] in place of the append
AnalyzeVideo_OverwritesList(id, atype) ==
    /\ running = 0
    /\ LET svc == AnalyzeOutcome(id)
           aid == Len(analyses_db) + 1
           analysis == VideoAnalysis(aid, id, atype, result_data(atype, None), now)
       IN IF svc # 200
          THEN /\ response' = Response("analyze", id, svc, RouterCode(svc), None)
               /\ UNCHANGED <<videos, analyses_db>>
          ELSE /\ Len(analyses_db) < MaxAnalyses
               /\ analyses_db' = Append(analyses_db, analysis)
               /\ videos' = [videos EXCEPT ![id].analyses = <<analysis>>]
               /\ response' = Response("analyze", id, 200, 200, Some(analysis))
    /\ UNCHANGED <<videos_db, files, task, running, now>>

\* AnalyzeVideo appending the Analysis to the video's list twice
AnalyzeVideo_AppendsTwice(id, atype) ==
    /\ running = 0
    /\ LET svc == AnalyzeOutcome(id)
           aid == Len(analyses_db) + 1
           analysis == VideoAnalysis(aid, id, atype, result_data(atype, None), now)
       IN IF svc # 200
          THEN /\ response' = Response("analyze", id, svc, RouterCode(svc), None)
               /\ UNCHANGED <<videos, analyses_db>>
          ELSE /\ Len(analyses_db) < MaxAnalyses
               /\ analyses_db' = Append(analyses_db, analysis)
               /\ videos' = [videos EXCEPT ![id].analyses = Append(Append(@, analysis), analysis)]
               /\ response' = Response("analyze", id, 200, 200, Some(analysis))
    /\ UNCHANGED <<videos_db, files, task, running, now>>

\* AnalyzeVideo drawing an id that is already a key of analyses_db
AnalyzeVideo_ReusesId(id, atype) ==
    /\ running = 0
    /\ LET svc == AnalyzeOutcome(id)
           analysis == VideoAnalysis(1, id, atype, result_data(atype, None), now)
       IN IF svc # 200
          THEN /\ response' = Response("analyze", id, svc, RouterCode(svc), None)
               /\ UNCHANGED <<videos, analyses_db>>
          ELSE /\ Len(analyses_db) < MaxAnalyses
               /\ analyses_db' = IF analyses_db = <<>> THEN <<analysis>>
                                 ELSE [analyses_db EXCEPT ![1] = analysis]
               /\ videos' = [videos EXCEPT ![id].analyses = Append(@, analysis)]
               /\ response' = Response("analyze", id, 200, 200, Some(analysis))
    /\ UNCHANGED <<videos_db, files, task, running, now>>

AnalyzeVideo(id, atype) ==
    /\ running = 0
    /\ LET svc == AnalyzeOutcome(id)
           aid == Len(analyses_db) + 1
           analysis == VideoAnalysis(aid, id, atype, result_data(atype, None), now)
       IN IF svc # 200
          THEN /\ response' = Response("analyze", id, svc, RouterCode(svc), None)
               /\ UNCHANGED <<videos, analyses_db>>
          ELSE /\ Len(analyses_db) < MaxAnalyses
               /\ analyses_db' = Append(analyses_db, analysis)
               \* if not video.analyses: video.analyses = []; then append
               /\ videos' = [videos EXCEPT ![id].analyses =
                                Append(IF @ = <<>> THEN <<>> ELSE @, analysis)]
               /\ response' = Response("analyze", id, 200, 200, Some(analysis))
    /\ UNCHANGED <<videos_db, files, task, running, now>>

GetVideoAnalyses(id) ==
    /\ running = 0
    /\ LET svc == IF get_video_by_id(id) = None THEN 404 ELSE 200
       IN response' = Response("analyses", id, svc, RouterCode(svc),
                               IF svc = 200 THEN videos[id].analyses ELSE None)
    /\ UNCHANGED <<videos, videos_db, analyses_db, files, task, running, now>>

(***************************************************************************)
(* VideoService.get_video_recommendations                                  *)
(***************************************************************************)
Abs(x) == IF x < 0 THEN -x ELSE x
\* timedelta.days of a difference given in half days: the floor
Days(halfDays) == halfDays \div 2

\* SportFactor without the truth test of current_video.sport_type
SportFactor_NoTruthCheck(cur, v) == v.sport_type = cur.sport_type

\* if current_video.sport_type and video.sport_type == current_video.sport_type
SportFactor(cur, v) ==
    /\ cur.sport_type # None
    /\ cur.sport_type[1] # ""
    /\ v.sport_type = cur.sport_type

\* if current_video.teams and video.teams: common_teams = set(..) & set(..)
TeamsFactor(cur, v) ==
    /\ cur.teams # None /\ cur.teams[1] # <<>>
    /\ v.teams # None /\ v.teams[1] # <<>>
    /\ SeqToSet(cur.teams[1]) \cap SeqToSet(v.teams[1]) # {}

\* abs((current_video.match_date - video.match_date).days) <= 30
DateFactor(cur, v) ==
    /\ cur.match_date # None
    /\ v.match_date # None
    /\ Abs(Days(cur.match_date[1] - v.match_date[1])) <= MaxDateDiffDays

similarity_score(cur, v) ==
    (IF SportFactor(cur, v) THEN SportWeight ELSE 0)
    + (IF TeamsFactor(cur, v) THEN TeamsWeight ELSE 0)
    + (IF DateFactor(cur, v) THEN DateWeight ELSE 0)

\* the reason string, as the list of the parts appended to it
Reason(cur, v) ==
    (IF SportFactor(cur, v) THEN <<"sport">> ELSE <<>>)
    \o (IF TeamsFactor(cur, v) THEN <<"teams">> ELSE <<>>)
    \o (IF DateFactor(cur, v) THEN <<"date">> ELSE <<>>)

\* whether the loop appends a recommendation for candidate id
IsCandidate(video_id, id) ==
    /\ id # video_id
    /\ similarity_score(videos[video_id], videos[id]) > ScoreThreshold

RECURSIVE Candidates(_, _)
\* the loop over self.videos_db.values(), in the dict's order
Candidates(video_id, ids) ==
    IF ids = <<>> THEN <<>>
    ELSE (IF IsCandidate(video_id, Head(ids))
          THEN << VideoRecommendation(Head(ids),
                     similarity_score(videos[video_id], videos[Head(ids)]),
                     Reason(videos[video_id], videos[Head(ids)])) >>
          ELSE <<>>)
         \o Candidates(video_id, Tail(ids))

\* get_video_recommendations with an ascending sort that is then reversed: equal
\* scores come out in the reverse of the dict's order
get_video_recommendations_ReversesTies(video_id, limit) ==
    LET recs == Candidates(video_id, videos_db)
        keyed == [i \in DOMAIN recs |->
                     [key |-> recs[Len(recs) + 1 - i].similarity_score,
                      val |-> recs[Len(recs) + 1 - i]]]
    IN PySlice(Values(SortDesc(keyed)), 0, limit)

\* recommendations.sort(key=similarity_score, reverse=True); recommendations[:limit]
get_video_recommendations(video_id, limit) ==
    LET recs == Candidates(video_id, videos_db)
        keyed == [i \in DOMAIN recs |-> [key |-> recs[i].similarity_score, val |-> recs[i]]]
    IN PySlice(Values(SortDesc(keyed)), 0, limit)

GetVideoRecommendations(id, limit) ==
    /\ running = 0
    /\ LET svc == IF get_video_by_id(id) = None THEN 404 ELSE 200
       IN response' = Response("recommend", <<id, limit>>, svc, RouterCode(svc),
                               IF svc = 200 THEN get_video_recommendations(id, limit)
                               ELSE None)
    /\ UNCHANGED <<videos, videos_db, analyses_db, files, task, running, now>>

(***************************************************************************)
(* VideoService.delete_video                                               *)
(***************************************************************************)
\* DeleteVideo without the try around os.remove: a failed removal ends the call
DeleteVideo_RmFailureAborts(id, rmFails) ==
    /\ running = 0
    /\ LET svc == IF get_video_by_id(id) = None THEN 404
                  ELSE IF id \in files /\ rmFails THEN 500
                  ELSE 200
       IN IF svc # 200
          THEN /\ response' = Response("delete", id, svc, RouterCode(svc), None)
               /\ UNCHANGED <<videos_db, files>>
          ELSE /\ files' = files \ {id}
               /\ videos_db' = RemoveKey(videos_db, id)
               /\ response' = Response("delete", id, 200, 200, Some(TRUE))
    /\ UNCHANGED <<videos, analyses_db, task, running, now>>

\* DeleteVideo that also drops the deleted video's analyses from analyses_db
DeleteVideo_PurgesAnalyses(id, rmFails) ==
    /\ running = 0
    /\ LET svc == IF get_video_by_id(id) = None THEN 404 ELSE 200
       IN IF svc # 200
          THEN /\ response' = Response("delete", id, svc, RouterCode(svc), None)
               /\ UNCHANGED <<videos_db, files, analyses_db>>
          ELSE /\ files' = IF id \in files /\ ~rmFails THEN files \ {id} ELSE files
               /\ videos_db' = RemoveKey(videos_db, id)
               /\ analyses_db' = SelectSeq(analyses_db, LAMBDA a : a.video_id # id)
               /\ response' = Response("delete", id, 200, 200, Some(TRUE))
    /\ UNCHANGED <<videos, task, running, now>>

\* rmFails: os.remove raises; the except branch prints and goes on
DeleteVideo(id, rmFails) ==
    /\ running = 0
    /\ LET svc == IF get_video_by_id(id) = None THEN 404 ELSE 200
       IN IF svc # 200
          THEN /\ response' = Response("delete", id, svc, RouterCode(svc), None)
               /\ UNCHANGED <<videos_db, files>>
          ELSE /\ files' = IF id \in files /\ ~rmFails THEN files \ {id} ELSE files
               /\ videos_db' = RemoveKey(videos_db, id)
               /\ response' = Response("delete", id, 200, 200, Some(TRUE))
    /\ UNCHANGED <<videos, analyses_db, task, running, now>>

Init ==
    /\ videos = <<>>
    /\ videos_db = <<>>
    /\ analyses_db = <<>>
    /\ files = {}
    /\ task = <<>>
    /\ running = 0
    /\ now = 0
    /\ response = Response("none", 0, 200, 200, None)

Next ==
    \/ \E ext \in Extensions, size \in FileSizes, writeFails \in BOOLEAN :
          UploadRejected(ext, size, writeFails)
    \/ \E ext \in Extensions, size \in FileSizes, meta \in LifecycleMetadata :
          UploadVideo(ext, size, meta, 0)
    \/ \E id \in VideoIds : ProcessBegin(id)
    \/ \E id \in VideoIds : ProcessComplete(id)
    \/ \E id \in VideoIds : ProcessFail(id)
    \/ ListVideos(None, None, DefaultListLimit, 0)
    \/ \E id \in VideoIds : GetVideo(id)
    \/ \E id \in VideoIds, atype \in LifecycleAnalysisTypes : AnalyzeVideo(id, atype)
    \/ \E id \in VideoIds : GetVideoAnalyses(id)
    \/ \E id \in VideoIds, limit \in LifecycleRecLimits : GetVideoRecommendations(id, limit)
    \/ \E id \in VideoIds, rmFails \in BOOLEAN : DeleteVideo(id, rmFails)

Spec == Init /\ [][Next]_vars

\* The event loop resumes a coroutine whose sleep is over, and runs a coroutine
\* that holds the loop up to its next suspension point.
Fairness ==
    \A id \in 1..MaxVideos :
        /\ WF_vars(ProcessBegin(id))
        /\ WF_vars(ProcessComplete(id) \/ ProcessFail(id))

SpecFair == Spec /\ Fairness

\* time passes between two requests
Tick ==
    /\ running = 0
    /\ now < MaxTime
    /\ now' = now + 1
    /\ UNCHANGED <<videos, videos_db, analyses_db, files, task, running, response>>

\* the upload and its pipeline with a clock that advances, and the requests that
\* write to a video or to the catalog, when they are accepted
NextClock ==
    \/ \E meta \in LifecycleMetadata, d \in 0..1 : UploadVideo(".mp4", 1, meta, d)
    \/ \E id \in VideoIds : ProcessBegin(id)
    \/ \E id \in VideoIds : ProcessComplete(id)
    \/ \E id \in VideoIds : ProcessFail(id)
    \/ \E id \in VideoIds, atype \in LifecycleAnalysisTypes :
          AnalyzeOutcome(id) = 200 /\ AnalyzeVideo(id, atype)
    \/ \E id \in VideoIds : InCatalog(id) /\ DeleteVideo(id, FALSE)
    \/ Tick

SpecClock == Init /\ [][NextClock]_vars

\* uploads alone, accepted or refused, with their pipelines and the clock
NextUpload ==
    \/ \E ext \in Extensions, size \in FileSizes, writeFails \in BOOLEAN :
          UploadRejected(ext, size, writeFails)
    \/ \E ext \in Extensions, size \in FileSizes, meta \in LifecycleMetadata, d \in 0..1 :
          UploadVideo(ext, size, meta, d)
    \/ \E id \in VideoIds : ProcessBegin(id)
    \/ \E id \in VideoIds : ProcessComplete(id)
    \/ \E id \in VideoIds : ProcessFail(id)
    \/ Tick

SpecUpload == Init /\ [][NextUpload]_vars

(***************************************************************************)
(* The scorer on drawn catalogs: a pair of videos with any metadata, or up *)
(* to MaxRecVideos videos with coarse metadata, all processed.             *)
(***************************************************************************)
Catalog(metas) ==
    /\ videos = [i \in DOMAIN metas |-> Video(metas[i], COMPLETED, 0, 0)]
    /\ videos_db = [i \in DOMAIN metas |-> i]
    /\ analyses_db = <<>>
    /\ files = DOMAIN metas
    /\ task = [i \in DOMAIN metas |-> "returned"]
    /\ running = 0
    /\ now = 0
    /\ response = Response("none", 0, 200, 200, None)

InitRec ==
    \/ \E metas \in [1..2 -> Metadata] : Catalog(metas)
    \/ \E n \in 0..MaxRecVideos : \E metas \in [1..n -> CoarseMetadata] : Catalog(metas)

\* one recommendation request on the drawn catalog
NextRec ==
    \E id \in 1..(MaxRecVideos + 1), limit \in RecLimits :
        /\ response.op = "none"
        /\ GetVideoRecommendations(id, limit)

SpecRec == InitRec /\ [][NextRec]_vars

(***************************************************************************)
(* The listing on drawn catalogs: up to MaxListVideos processed videos,    *)
(* created at times that do not decrease in the order of their upload,     *)
(* then one list request with any filters and paging arguments.            *)
(***************************************************************************)
ListLimits == {-1, 0, 1, 2, DefaultListLimit}
ListOffsets == {-1, 0, 1, 2, MaxListVideos, MaxListVideos + 1}
ListFilters ==
    { <<None, None>>, <<Some("soccer"), None>>, <<None, Some(COMPLETED)>>,
      <<Some("soccer"), Some(COMPLETED)>> }
\* sport_type and status of a drawn video: one that passes both filters of
\* ListFilters, one that fails the sport filter, one that fails the status filter
ListProfiles ==
    { [sport_type |-> Some("soccer"), status |-> COMPLETED],
      [sport_type |-> Some("tennis"), status |-> COMPLETED],
      [sport_type |-> Some("soccer"), status |-> FAILED] }

InitList ==
    \E n \in 0..MaxListVideos :
        \E profs \in [1..n -> ListProfiles], times \in [1..n -> 0..MaxTime] :
            /\ \A i, j \in 1..n : i < j => times[i] <= times[j]
            /\ videos = [i \in 1..n |->
                            Video([sport_type |-> profs[i].sport_type, teams |-> None,
                                   match_date |-> None],
                                  profs[i].status, times[i], times[i])]
            /\ videos_db = [i \in 1..n |-> i]
            /\ analyses_db = <<>>
            /\ files = 1..n
            /\ task = [i \in 1..n |-> "returned"]
            /\ running = 0
            /\ now = MaxTime
            /\ response = Response("none", 0, 200, 200, None)

NextList ==
    \E f \in ListFilters, limit \in ListLimits, offset \in ListOffsets :
        /\ response.op = "none"
        /\ ListVideos(f[1], f[2], limit, offset)

SpecList == InitList /\ [][NextList]_vars

(***************************************************************************)
(* Analyses on drawn catalogs: up to MaxVideos videos, each in a state the *)
(* pipeline leaves a video in, then analyze requests of any type.          *)
(***************************************************************************)
InitAnalyze ==
    \E n \in 1..MaxVideos :
        \E stats \in [1..n -> {PROCESSING, COMPLETED, FAILED}] :
            /\ videos = [i \in 1..n |->
                            Video(CHOOSE meta \in LifecycleMetadata : TRUE, stats[i], 0, 0)]
            /\ videos_db = [i \in 1..n |-> i]
            /\ analyses_db = <<>>
            /\ files = 1..n
            /\ task = [i \in 1..n |->
                          IF stats[i] = PROCESSING THEN "sleeping" ELSE "returned"]
            /\ running = 0
            /\ now = 0
            /\ response = Response("none", 0, 200, 200, None)

NextAnalyze ==
    \E id \in VideoIds, atype \in AnalysisTypes : AnalyzeVideo(id, atype)

SpecAnalyze == InitAnalyze /\ [][NextAnalyze]_vars

(***************************************************************************)
(* Properties                                                              *)
(***************************************************************************)
Created(id) == id \in DOMAIN videos

\* C1: when upload_video returns the Video of an accepted upload, the status of
\* the returned video is UPLOADING.
C1_UploadReturnsUploading ==
    (response.op = "upload" /\ response.svc = 200)
        => response.body[1].status = UPLOADING

\* C2: every video that enters PROCESSING eventually reaches COMPLETED or FAILED
\* with no further request, and a pipeline that has ended, by success or by a
\* raised exception, has left a terminal status and answered the upload with the
\* video, not with an error.
C2_ProcessingEnds ==
    /\ \A id \in 1..MaxVideos :
          (Created(id) /\ videos[id].status = PROCESSING)
              ~> (Created(id) /\ videos[id].status \in Terminal)
    /\ [](\A id \in DOMAIN videos :
             task[id] = "returned" => videos[id].status \in Terminal)
    /\ [](response.op = "upload" /\ response.arg # 0 => response.svc = 200)

C2_Witness ==
    \E id \in DOMAIN videos :
        /\ videos[id].status = FAILED
        /\ response = UploadReturn(id, videos)

\* C3: a video's status changes only UPLOADING -> PROCESSING, PROCESSING ->
\* COMPLETED or PROCESSING -> FAILED; a new video starts as UPLOADING; a
\* COMPLETED or FAILED status never changes, whatever request runs.
C3_StatusTransitions ==
    [][ /\ \A id \in DOMAIN videos :
              \/ videos'[id].status = videos[id].status
              \/ <<videos[id].status, videos'[id].status>> \in
                     { <<UPLOADING, PROCESSING>>, <<PROCESSING, COMPLETED>>,
                       <<PROCESSING, FAILED>> }
        /\ \A id \in (DOMAIN videos') \ (DOMAIN videos) :
              videos'[id].status = UPLOADING ]_vars

C3_Witness ==
    /\ \E id \in DOMAIN videos :
          /\ videos[id].status = COMPLETED
          /\ Len(videos[id].analyses) > 0
          /\ response.op = "recommend" /\ response.arg[1] = id
    /\ \E id \in DOMAIN videos : videos[id].status = FAILED /\ ~InCatalog(id)

\* C4: analyze on an id that is not in the catalog fails with 404, on a video
\* whose status is not COMPLETED with 400; either way nothing is created and the
\* videos, the video catalog and the analysis catalog are unchanged.
C4_AnalyzeRejected ==
    [][ \A id \in VideoIds, atype \in LifecycleAnalysisTypes :
          (AnalyzeVideo(id, atype) /\ (~InCatalog(id) \/ videos[id].status # COMPLETED))
              => /\ response'.op = "analyze"
                 /\ response'.svc = (IF ~InCatalog(id) THEN 404 ELSE 400)
                 /\ response'.body = None
                 /\ UNCHANGED <<videos, videos_db, analyses_db>> ]_vars

C4_Witness ==
    /\ response.op = "analyze"
    /\ response.svc = 400
    /\ InCatalog(response.arg)
    /\ videos[response.arg].status = FAILED
    /\ \E id \in DOMAIN videos : videos[id].status = COMPLETED

\* C5: analyze on a COMPLETED video of the catalog appends one Analysis, with an
\* id no stored Analysis has and the video_id asked for, at the end of the
\* video's analyses and adds that record alone to the analysis catalog; the
\* video's status and updated_at, the other videos and the catalog are unchanged.
C5_AnalyzeAppendsOne ==
    [][ \A id \in VideoIds, atype \in LifecycleAnalysisTypes :
          (AnalyzeVideo(id, atype) /\ InCatalog(id) /\ videos[id].status = COMPLETED)
              => LET a == videos'[id].analyses[Len(videos'[id].analyses)]
                 IN /\ videos'[id].analyses = Append(videos[id].analyses, a)
                    /\ a.video_id = id
                    /\ a.analysis_type = atype
                    /\ \A k \in DOMAIN analyses_db : analyses_db[k].id # a.id
                    /\ \A i \in DOMAIN videos[id].analyses :
                          videos[id].analyses[i].id # a.id
                    /\ DOMAIN analyses_db' = DOMAIN analyses_db \cup {a.id}
                    /\ analyses_db'[a.id] = a
                    /\ \A k \in DOMAIN analyses_db : analyses_db'[k] = analyses_db[k]
                    /\ videos' = [videos EXCEPT ![id].analyses = videos'[id].analyses]
                    /\ videos_db' = videos_db
                    /\ response'.svc = 200 /\ response'.body = Some(a) ]_vars

C5_Witness ==
    /\ response.op = "analyze"
    /\ response.svc = 200
    /\ Len(videos[response.arg].analyses) = 2
    /\ videos[response.arg].analyses[2] = response.body[1]
    /\ Len(videos_db) = 2

\* C6: no video of the catalog whose status is UPLOADING, PROCESSING or FAILED
\* has an analysis, and every stored Analysis names a video that was created
\* and is COMPLETED.
C6_AnalysesOnlyOnCompleted ==
    /\ \A id \in DOMAIN videos :
          (InCatalog(id) /\ videos[id].status # COMPLETED) => videos[id].analyses = <<>>
    /\ \A k \in DOMAIN analyses_db :
          /\ Created(analyses_db[k].video_id)
          /\ videos[analyses_db[k].video_id].status = COMPLETED

C6_Witness ==
    /\ \E id \in DOMAIN videos : InCatalog(id) /\ Len(videos[id].analyses) > 0
    /\ \E id \in DOMAIN videos : InCatalog(id) /\ videos[id].status = PROCESSING
    /\ response.op = "analyze" /\ response.svc = 400

\* C7: an error the service raises is answered over HTTP with its own status
\* code: 404 for an unknown video id, 400 for analyze before COMPLETED and for a
\* rejected upload, 500 only for a storage failure.
C7_HttpCodeIsServiceCode ==
    /\ response.http = 500 => response.svc = 500
    /\ response.svc = 404 => response.http = 404
    /\ response.svc = 400 => response.http = 400
    /\ (response.op = "get" /\ ~InCatalog(response.arg)) => response.http = 404

\* C8: recommend(v, limit) on a video v of the catalog returns a sequence without
\* v, of length at most limit, whose scores are all above 0.1 and in
\* non-increasing order; on an id that is not in the catalog it fails with 404.
\* No sequence is shorter than a negative limit: the length is read in the way
\* most favourable to the code, at most 0 entries for a limit below 0.
C8_RecommendShape ==
    response.op = "recommend" =>
        LET id == response.arg[1]
            limit == response.arg[2]
            recs == response.body
        IN IF ~InCatalog(id) THEN response.svc = 404
           ELSE /\ response.svc = 200
                /\ \A i \in DOMAIN recs : recs[i].video_id # id
                /\ Len(recs) <= Max(limit, 0)
                /\ \A i \in DOMAIN recs : recs[i].similarity_score > ScoreThreshold
                /\ \A i, j \in DOMAIN recs :
                      i < j => recs[i].similarity_score >= recs[j].similarity_score

\* C9: the score of a candidate is the sum of 0.3 if the two videos have the same
\* non-empty sport_type, 0.4 if their sets of team names intersect and 0.2 if the
\* date factor triggers; a candidate is recommended iff the sum is above 0.1.
TeamSet(v) == IF v.teams = None THEN {} ELSE SeqToSet(v.teams[1])
SameSport(a, b) ==
    a.sport_type = b.sport_type /\ a.sport_type # None /\ a.sport_type # Some("")
ClaimedScore(a, b) ==
    (IF SameSport(a, b) THEN 3 ELSE 0)
    + (IF TeamSet(a) \cap TeamSet(b) # {} THEN 4 ELSE 0)
    + (IF DateFactor(a, b) THEN 2 ELSE 0)

C9_ScoreIsSumOfWeights ==
    (response.op = "recommend" /\ response.svc = 200) =>
        LET id == response.arg[1]
            limit == response.arg[2]
            recs == response.body
        IN /\ \A i \in DOMAIN recs :
                 recs[i].similarity_score = ClaimedScore(videos[id], videos[recs[i].video_id])
           /\ limit >= Len(videos_db) =>
                 {recs[i].video_id : i \in DOMAIN recs}
                     = {c \in SeqToSet(videos_db) \ {id} :
                           ClaimedScore(videos[id], videos[c]) > 1}

C9_Witness ==
    /\ response.op = "recommend"
    /\ response.svc = 200
    /\ Len(videos_db) = 2
    /\ Len(response.body) = 1
    /\ response.body[1].similarity_score = 3
    /\ response.body[1].reason = <<"sport">>
    /\ \A id \in DOMAIN videos : videos[id].teams # None /\ videos[id].match_date # None

\* C10: delete on a video of the catalog removes it, so that get returns nothing
\* and list() does not hold it, also when removing the file fails, and reports
\* success; an id that left the catalog never comes back; delete on an id that
\* is not in the catalog fails with 404 and leaves the catalog unchanged.
C10_DeleteRemoves ==
    [][ /\ \A id \in VideoIds, rmFails \in BOOLEAN :
              (response'.op = "delete" /\ response'.arg = id /\ DeleteVideo(id, rmFails)) =>
                  IF InCatalog(id)
                  THEN /\ (get_video_by_id(id) = None)'
                       /\ (id \notin SeqToSet(get_video_history(DefaultListLimit, 0)))'
                       /\ response'.svc = 200 /\ response'.http = 200
                       /\ Len(videos_db') = Len(videos_db) - 1
                  ELSE /\ response'.svc = 404
                       /\ UNCHANGED <<videos, videos_db>>
        /\ \A id \in DOMAIN videos :
              ~InCatalog(id) => \A i \in DOMAIN videos_db' : videos_db'[i] # id ]_vars

C10_Witness ==
    /\ response.op = "delete"
    /\ response.svc = 200
    /\ response.arg \in files
    /\ ~InCatalog(response.arg)
    /\ Len(videos_db) = 1

\* C11: list(limit, offset) without filters returns an empty sequence whenever
\* offset is at least the size of the catalog, and whenever limit is zero or
\* negative.
C11_EmptyPage ==
    (response.op = "list" /\ response.arg[1] = None /\ response.arg[2] = None) =>
        LET limit == response.arg[3]
            offset == response.arg[4]
        IN (offset >= Len(videos_db) \/ limit <= 0) => response.body = <<>>

\* C12: for offset >= 0 and limit > 0, list(limit, offset) is the run of positions
\* offset .. offset+limit-1 of one ordering of the whole catalog that has every
\* catalog video once and never a video before a newer one; the pages of one
\* size, taken one after the other, are that ordering cut into pieces.
IsNewestFirst(s) ==
    \A i, j \in DOMAIN s : i < j => videos[s[i]].created_at >= videos[s[j]].created_at
IsCatalogOnce(s) ==
    /\ Len(s) = Len(videos_db)
    /\ SeqToSet(s) = SeqToSet(videos_db)
    /\ \A i, j \in DOMAIN s : i # j => s[i] # s[j]
PageOf(full, limit, offset) ==
    [k \in 1..Min(limit, Max(Len(full) - offset, 0)) |-> full[offset + k]]
RECURSIVE PagesFrom(_, _)
PagesFrom(limit, offset) ==
    IF offset >= Len(videos_db) THEN <<>>
    ELSE get_video_history(limit, offset) \o PagesFrom(limit, offset + limit)

C12_Pagination ==
    LET full == get_video_history(Len(videos_db) + 1, 0)
    IN /\ IsCatalogOnce(full)
       /\ IsNewestFirst(full)
       /\ \A limit \in {l \in ListLimits : l > 0} :
             /\ \A offset \in {o \in ListOffsets : o >= 0} :
                   get_video_history(limit, offset) = PageOf(full, limit, offset)
             /\ PagesFrom(limit, 0) = full
       /\ (response.op = "list" /\ response.arg[1] = None /\ response.arg[2] = None
              /\ response.arg[3] > 0 /\ response.arg[4] >= 0)
             => response.body = PageOf(full, response.arg[3], response.arg[4])

C12_Witness ==
    /\ response.op = "list"
    /\ response.arg = <<None, None, 1, 1>>
    /\ Len(videos_db) = 3
    /\ videos[3].created_at > videos[1].created_at
    /\ response.body = <<1>>

\* C13: at every moment updated_at >= created_at for every video; updated_at never
\* decreases; a step that changes a video's status sets its updated_at to the
\* clock's value at that step; a step that leaves the status alone, whatever
\* request it belongs to, leaves updated_at alone.
C13_UpdatedAt ==
    /\ [](\A id \in DOMAIN videos : videos[id].updated_at >= videos[id].created_at)
    /\ [][ \A id \in DOMAIN videos :
              /\ videos'[id].updated_at >= videos[id].updated_at
              /\ videos'[id].created_at = videos[id].created_at
              /\ IF videos'[id].status # videos[id].status
                 THEN videos'[id].updated_at = now'
                 ELSE videos'[id].updated_at = videos[id].updated_at ]_vars

C13_Witness ==
    \E id \in DOMAIN videos :
        /\ videos[id].status = COMPLETED
        /\ videos[id].created_at = 0
        /\ videos[id].updated_at = MaxTime
        /\ Len(videos[id].analyses) > 0
        /\ now = MaxTime
        /\ \E other \in DOMAIN videos : ~InCatalog(other) /\ videos[other].status = FAILED

\* C14: an upload is refused with a validation error (400) iff its extension,
\* read without regard to case, is not .mp4 .avi .mov .mkv .webm or its size is
\* above 100*1024*1024 bytes; a file of exactly that size is accepted; a refused
\* upload creates no video and leaves the catalog and the stored files as they
\* were.
\* the members of Extensions that are, case ignored, one of the five
ListedExtensions == {".mp4", ".MP4", ".webm"}
Invalid(ext, size) == ext \notin ListedExtensions \/ size > 100 * 1024 * 1024

C14_UploadValidation ==
    /\ [](\A ext \in Extensions, size \in FileSizes :
             (running = 0 /\ Len(videos) < MaxVideos) =>
                 IF Invalid(ext, size)
                 THEN ENABLED UploadRejected(ext, size, FALSE)
                 ELSE \A meta \in LifecycleMetadata : ENABLED UploadVideo(ext, size, meta, 0))
    /\ [][ \A ext \in Extensions, size \in FileSizes :
             /\ \A writeFails \in BOOLEAN :
                   UploadRejected(ext, size, writeFails) =>
                       /\ response'.svc = 400 <=> Invalid(ext, size)
                       /\ ~writeFails => Invalid(ext, size)
                       /\ response'.body = None
                       /\ UNCHANGED <<videos, videos_db, files, analyses_db>>
             /\ \A meta \in LifecycleMetadata, d \in 0..1 :
                   UploadVideo(ext, size, meta, d) =>
                       /\ ~Invalid(ext, size)
                       /\ Len(videos') = Len(videos) + 1
                       /\ videos_db' = Append(videos_db, Len(videos'))
         ]_vars

C14_Witness ==
    /\ response.op = "upload"
    /\ response.svc = 400
    /\ response.body = None
    /\ Len(videos_db) = 1
    /\ Len(videos) = 1

\* C15: delete leaves the analysis catalog unchanged, so every Analysis of a
\* deleted video is still stored there under its id; get-analyses on an id that
\* is not in the catalog, a deleted one included, fails with 404 and returns no
\* analyses.
C15_DeleteKeepsAnalyses ==
    /\ [](\A id \in DOMAIN videos :
             ~InCatalog(id) =>
                 \A i \in DOMAIN videos[id].analyses :
                     LET a == videos[id].analyses[i]
                     IN a.id \in DOMAIN analyses_db /\ analyses_db[a.id] = a)
    /\ [][ /\ \A id \in VideoIds, rmFails \in BOOLEAN :
                 DeleteVideo(id, rmFails) => analyses_db' = analyses_db
           /\ \A id \in VideoIds :
                 (GetVideoAnalyses(id) /\ ~InCatalog(id)) =>
                     /\ response'.op = "analyses" /\ response'.arg = id
                     /\ response'.svc = 404
                     /\ response'.body = None ]_vars

C15_Witness ==
    /\ response.op = "analyses"
    /\ response.svc = 404
    /\ Created(response.arg)
    /\ ~InCatalog(response.arg)
    /\ Len(videos[response.arg].analyses) = 2
    /\ \A k \in DOMAIN analyses_db : analyses_db[k].video_id = response.arg
    /\ Len(analyses_db) = 2

\* C16: every key of the analysis catalog maps to the record with that id; no
\* step removes or changes an entry of the analysis catalog, or removes, moves
\* or changes an entry of a video's analyses; a video is created without
\* analyses; only analyze adds an Analysis.
C16_AnalysesAppendOnly ==
    /\ [](\A k \in DOMAIN analyses_db : analyses_db[k].id = k)
    /\ [][ /\ \A k \in DOMAIN analyses_db :
                 k \in DOMAIN analyses_db' /\ analyses_db'[k] = analyses_db[k]
           /\ \A id \in DOMAIN videos :
                 /\ Len(videos'[id].analyses) >= Len(videos[id].analyses)
                 /\ \A i \in DOMAIN videos[id].analyses :
                       videos'[id].analyses[i] = videos[id].analyses[i]
           /\ \A id \in (DOMAIN videos') \ (DOMAIN videos) : videos'[id].analyses = <<>>
           /\ (\/ analyses_db' # analyses_db
               \/ \E id \in DOMAIN videos : videos'[id].analyses # videos[id].analyses)
                 => \E id \in VideoIds, atype \in LifecycleAnalysisTypes :
                        AnalyzeVideo(id, atype) /\ response'.svc = 200 ]_vars

C16_Witness ==
    /\ response.op = "delete"
    /\ response.svc = 200
    /\ Len(analyses_db) = 2
    /\ analyses_db[1].video_id # analyses_db[2].video_id
    /\ videos[response.arg].analyses = <<analyses_db[1]>>
    /\ InCatalog(analyses_db[2].video_id)

\* C17: a recommended candidate's score holds the 0.2 of the date factor iff the
\* target and the candidate both have a match_date and the two instants are at
\* most 30 days (60 half days) apart, whichever of the two is the target; with
\* a limit that cuts nothing off, a candidate left out is not that close.
WithinThirtyDays(a, b) ==
    /\ a.match_date # None
    /\ b.match_date # None
    /\ Abs(a.match_date[1] - b.match_date[1]) <= 2 * 30

C17_DateFactorExact ==
    (response.op = "recommend" /\ response.svc = 200) =>
        LET id == response.arg[1]
            limit == response.arg[2]
            recs == response.body
        IN /\ \A i \in DOMAIN recs :
                 LET v == videos[recs[i].video_id]
                 IN /\ ("date" \in SeqToSet(recs[i].reason)) <=> WithinThirtyDays(videos[id], v)
                    /\ recs[i].similarity_score =
                          (IF SameSport(videos[id], v) THEN 3 ELSE 0)
                          + (IF TeamSet(videos[id]) \cap TeamSet(v) # {} THEN 4 ELSE 0)
                          + (IF WithinThirtyDays(videos[id], v) THEN 2 ELSE 0)
           /\ limit >= Len(videos_db) =>
                 \A c \in SeqToSet(videos_db) \ ({id} \cup {recs[i].video_id : i \in DOMAIN recs}) :
                     ~WithinThirtyDays(videos[id], videos[c])

\* C18: the result of recommend is the beginning of one ordering of all the
\* candidates: higher scores first, and among equal scores the candidate that
\* comes earlier in the catalog first.  For a limit >= 0 it is the first
\* min(limit, number of candidates) entries of that ordering.
CatalogPos(id) == CHOOSE i \in DOMAIN videos_db : videos_db[i] = id
CandidateSet(target) ==
    {c \in SeqToSet(videos_db) \ {target} :
        similarity_score(videos[target], videos[c]) > ScoreThreshold}
\* the place of candidate c in the ordering
Rank(target, c) ==
    1 + Cardinality({d \in CandidateSet(target) :
          \/ similarity_score(videos[target], videos[d])
                 > similarity_score(videos[target], videos[c])
          \/ /\ similarity_score(videos[target], videos[d])
                    = similarity_score(videos[target], videos[c])
             /\ CatalogPos(d) < CatalogPos(c)})

C18_StableTruncation ==
    (response.op = "recommend" /\ response.svc = 200) =>
        LET id == response.arg[1]
            limit == response.arg[2]
            recs == response.body
        IN /\ \A i \in DOMAIN recs :
                 /\ recs[i].video_id \in CandidateSet(id)
                 /\ Rank(id, recs[i].video_id) = i
           /\ limit >= 0 => Len(recs) = Min(limit, Cardinality(CandidateSet(id)))

C18_Witness ==
    /\ response.op = "recommend"
    /\ response.svc = 200
    /\ response.arg = <<2, 1>>
    /\ Len(videos_db) = 3
    /\ similarity_score(videos[2], videos[1]) = similarity_score(videos[2], videos[3])
    /\ Len(response.body) = 1
    /\ response.body[1].video_id = 1

\* C19: analyze on a COMPLETED video succeeds for every analysis_type and stores
\* the Analysis; for a type other than goal_detection, player_tracking and
\* tactical_analysis the stored result is an error payload; for each of the
\* three it is not, and two Analyses of different types among the three have
\* results of different shapes.
RecognizedTypes == {"goal_detection", "player_tracking", "tactical_analysis"}
IsErrorPayload(rd) == "error" \in DOMAIN rd \/ "error" \in DOMAIN rd.results
Shape(rd) == DOMAIN rd.results

C19_PayloadByType ==
    /\ (response.op = "analyze" /\ InCatalog(response.arg)
           /\ videos[response.arg].status = COMPLETED) =>
          /\ response.svc = 200
          /\ response.body # None
          /\ response.body[1].id \in DOMAIN analyses_db
          /\ analyses_db[response.body[1].id] = response.body[1]
    /\ \A k \in DOMAIN analyses_db :
          IsErrorPayload(analyses_db[k].result_data)
              <=> analyses_db[k].analysis_type \notin RecognizedTypes
    /\ \A k, l \in DOMAIN analyses_db :
          (/\ analyses_db[k].analysis_type \in RecognizedTypes
           /\ analyses_db[l].analysis_type \in RecognizedTypes
           /\ analyses_db[k].analysis_type # analyses_db[l].analysis_type)
              => Shape(analyses_db[k].result_data) # Shape(analyses_db[l].result_data)

\* C20: for every two videos a and b of the catalog the score of b for target a
\* equals the score of a for target b, and b is in the recommendations of a
\* taken with a limit that cuts nothing off iff a is in those of b.
RecommendedFor(target) ==
    {r.video_id : r \in SeqToSet(get_video_recommendations(target, Len(videos_db)))}

C20_ScoreSymmetric ==
    (response.op = "recommend" /\ response.svc = 200
        /\ response.arg[2] >= Len(videos_db)) =>
        LET a == response.arg[1]
            recs == response.body
        IN \A b \in SeqToSet(videos_db) \ {a} :
              /\ similarity_score(videos[a], videos[b]) = similarity_score(videos[b], videos[a])
              /\ (\E i \in DOMAIN recs : recs[i].video_id = b) <=> a \in RecommendedFor(b)
              /\ \A i \in DOMAIN recs :
                    recs[i].video_id = b =>
                        recs[i].similarity_score = similarity_score(videos[b], videos[a])

\* C21: when the pipeline of a video that was deleted during its sleep resumes,
\* it sets a terminal status on the video and leaves the catalog as it is: get
\* on the id finds nothing and list() does not hold it; and no later step of
\* any kind brings an id that left the catalog back into it.
C21_DeletedStaysDeleted ==
    [][ /\ \A id \in VideoIds :
              ((ProcessComplete(id) \/ ProcessFail(id)) /\ ~InCatalog(id)) =>
                  /\ videos'[id].status \in Terminal
                  /\ videos_db' = videos_db
                  /\ (get_video_by_id(id) = None)'
                  /\ (id \notin SeqToSet(get_video_history(DefaultListLimit, 0)))'
        /\ \A id \in DOMAIN videos :
              ~InCatalog(id) => (get_video_by_id(id) = None)' ]_vars

\* the upload of a video answers after the video was deleted during the sleep
C21_Witness ==
    /\ response.op = "upload"
    /\ response.arg # 0
    /\ ~InCatalog(response.arg)
    /\ task[response.arg] = "returned"
    /\ videos[response.arg].status = COMPLETED
    /\ Len(videos_db) = 1

\* C22: whenever another request can run, that is whenever no upload coroutine
\* holds the event loop, every video of the catalog has status PROCESSING,
\* COMPLETED or FAILED; so every step that answers a list, get, analyze,
\* analyses, recommend or delete request starts in such a state.
NoneUploading ==
    \A i \in DOMAIN videos_db : videos[videos_db[i]].status # UPLOADING

C22_UploadingNeverObserved ==
    /\ [](running = 0 => NoneUploading)
    /\ [][ (response' # response /\ response'.op # "upload") => NoneUploading ]_vars

\* a list answer that holds a PROCESSING video, kept while the next upload has
\* inserted its UPLOADING record and still holds the event loop
C22_Witness ==
    /\ running # 0
    /\ InCatalog(running)
    /\ videos[running].status = UPLOADING
    /\ response.op = "list"
    /\ \E i \in DOMAIN response.body : videos[response.body[i]].status = PROCESSING

\* C23: for every video v of the catalog, each Analysis of v.analyses has
\* video_id = v's id and is the record stored in the analysis catalog under its
\* id; and every record of the analysis catalog whose video_id names a video of
\* the catalog is at exactly one place of that video's analyses.
C23_CatalogsConsistent ==
    /\ \A v \in SeqToSet(videos_db) :
          \A i \in DOMAIN videos[v].analyses :
              LET a == videos[v].analyses[i]
              IN /\ a.video_id = v
                 /\ a.id \in DOMAIN analyses_db
                 /\ analyses_db[a.id] = a
    /\ \A k \in DOMAIN analyses_db :
          InCatalog(analyses_db[k].video_id) =>
              Cardinality({i \in DOMAIN videos[analyses_db[k].video_id].analyses :
                              videos[analyses_db[k].video_id].analyses[i] = analyses_db[k]}) = 1

\* two analyses, one of a video still in the catalog and one left behind by a
\* deleted video
C23_Witness ==
    /\ Len(analyses_db) = 2
    /\ InCatalog(analyses_db[1].video_id)
    /\ ~InCatalog(analyses_db[2].video_id)
    /\ response.op = "analyses"
    /\ response.svc = 200
    /\ response.body = <<analyses_db[1]>>

\* C24: the answer of the HTTP list operation is the page list(limit, offset) with
\* the videos that fail a supplied sport_type or status filter taken out and the
\* others left in their order: it has at most limit entries and is newest
\* first.  No answer is shorter than a negative limit: the length is read in the
\* way most favourable to the code, at most 0 entries for a limit below 0.
MatchesFilters(id, sport_type, status) ==
    /\ sport_type # None => videos[id].sport_type = sport_type
    /\ status # None => videos[id].status = status[1]

C24_FilterAfterPaging ==
    response.op = "list" =>
        LET sport_type == response.arg[1]
            status == response.arg[2]
            limit == response.arg[3]
            offset == response.arg[4]
            page == get_video_history(limit, offset)
        IN /\ response.body =
                 SelectSeq(page, LAMBDA id : MatchesFilters(id, sport_type, status))
           /\ IsNewestFirst(response.body)
           /\ Len(response.body) <= Max(limit, 0)
====
